---- MODULE Spec2Model ----
(***************************************************************************)
(* The InsightTrack Express server (src/server.js): the middleware chain   *)
(* registered with app.use, the rate limiter's per-client counters, the    *)
(* two mounted routers, the error-handling middleware, Express's default   *)
(* not-found handler, and the database connection made at start-up.        *)
(***************************************************************************)
EXTENDS Integers, Sequences, FiniteSets, Bags, TLC

VARIABLES hits, counted, passed, skipped, pending, out, dbState, stdout

vars == <<hits, counted, passed, skipped, pending, out, dbState, stdout>>

-----------------------------------------------------------------------------
(* Bounds of the model *)

\* requests a client may send in one window beyond the limiter's max
MaxOver == 2
\* requests the second client sends in one window (the first one may exhaust its quota)
MaxOtherHits == 1
\* requests of one client per window that are answered before the limiter
MaxSkipped == 1
\* requests whose body is still being read at the same time
MaxWaiting == 1
\* requests received before the database connection attempt has ended
MaxEarly == 1

-----------------------------------------------------------------------------
(* Program constants *)

\* rateLimit({ max: 100 })
max == 100
\* rateLimit({ message: ... })
message == "Too many requests from this IP, please try again later."
\* the body sent by the error-handling middleware
InternalError ==
  [status |-> "error", message |-> "An internal error occurred. Please try again later."]
MongoConnected == "Connected to database"

Clients == {"c1", "c2"}
HotClient == "c1"

CustomersMount == <<"api", "customers">>
AnalyticsMount == <<"api", "analytics">>

\* the request lines and Content-Type headers the model sends
ReqShapes ==
  { [method |-> "GET", path |-> <<"api", "customers", "7">>, ctype |-> "none"],
    [method |-> "GET", path |-> <<"api", "unknown">>, ctype |-> "none"],
    [method |-> "POST", path |-> <<"api", "analytics">>, ctype |-> "application/json"],
    [method |-> "OPTIONS", path |-> <<"api", "customers", "7">>, ctype |-> "none"] }

\* request bodies, as character sequences: {} , [[]] and the malformed {m
Bodies == { <<"{", "}">>, <<"[", "[", "]", "]">>, <<"{", "m">> }

\* what a route handler of ./routes/customers or ./routes/analytics may do
RouteOutcomes ==
  { [kind |-> "respond", detail |-> "none"],
    [kind |-> "next", detail |-> "none"],
    [kind |-> "raise", detail |-> "ValidationError"],
    [kind |-> "raise", detail |-> "MongoError"] }

\* the choices open for a path: a handler runs only under a mounted router
NoHandler == [kind |-> "next", detail |-> "none"]

NoError == [kind |-> "none", detail |-> "none", status |-> 0]
Unread == <<"unread">>

-----------------------------------------------------------------------------
(* Response headers *)

HelmetHeaders ==
  { "Content-Security-Policy", "Strict-Transport-Security",
    "X-Content-Type-Options", "X-Frame-Options" }
CorsHeaders == { "Access-Control-Allow-Origin" }
PreflightHeaders == { "Access-Control-Allow-Methods", "Content-Length" }
RateLimitHeaders == { "X-RateLimit-Limit", "X-RateLimit-Remaining" }

-----------------------------------------------------------------------------
(* The request context: one inbound request on its way through the chain *)

NewContext(c, shape) ==
  [ client    |-> c,
    method    |-> shape.method,
    path      |-> shape.path,
    ctype     |-> shape.ctype,
    raw       |-> Unread,
    parsed    |-> "none",
    headers   |-> {},
    access    |-> FALSE,
    responses |-> << >>,
    err       |-> NoError,
    stderr    |-> "none",
    at        |-> 1,
    nth       |-> "none",
    late      |-> FALSE,
    ctl       |-> "next" ]

\* res.status(s).send(b) / res.end(): one response written with the headers set so far
Respond(ctx, by, status, body) ==
  [ctx EXCEPT !.responses = Append(@, [by |-> by, status |-> status, body |-> body,
                                       headers |-> ctx.headers]),
              !.ctl = "end"]

\* next(err)
Fail(ctx, kind, detail, status) ==
  [ctx EXCEPT !.err = [kind |-> kind, detail |-> detail, status |-> status],
              !.ctl = "error"]

-----------------------------------------------------------------------------
(* The middleware, in the order of the app.use calls *)

\* app.use(helmet())
helmet(ctx) == [ctx EXCEPT !.headers = @ \cup HelmetHeaders]

\* app.use(cors()): every origin is allowed; a preflight is answered here
cors(ctx) ==
  IF ctx.method = "OPTIONS"
  THEN Respond([ctx EXCEPT !.headers = @ \cup CorsHeaders \cup PreflightHeaders],
               "cors", 204, "")
  ELSE [ctx EXCEPT !.headers = @ \cup CorsHeaders]

\* app.use(morgan('common')): registers the access-log line, never answers
morgan(ctx) == [ctx EXCEPT !.access = TRUE]

\* JSON.parse on the toy alphabet: {} , [] and arrays nested around them
RECURSIVE IsJSON(_)
IsJSON(s) ==
  \/ s = <<"{", "}">>
  \/ s = <<"[", "]">>
  \/ /\ Len(s) > 2
     /\ s[1] = "[" /\ s[Len(s)] = "]"
     /\ IsJSON(SubSeq(s, 2, Len(s) - 1))

\* app.use(express.json()): reads and parses a body of type application/json
jsonParser(ctx) ==
  IF ctx.ctype # "application/json" THEN ctx
  ELSE IF ctx.raw = Unread THEN [ctx EXCEPT !.ctl = "wait"]
  ELSE IF IsJSON(ctx.raw)
       THEN [ctx EXCEPT !.parsed = IF ctx.raw[1] = "{" THEN "object" ELSE "array"]
       ELSE Fail(ctx, "entity.parse.failed", "SyntaxError", 400)

\* app.use(express.urlencoded({ extended: false })): only for form bodies
urlencoded(ctx) ==
  IF ctx.ctype # "application/x-www-form-urlencoded" THEN ctx
  ELSE IF ctx.raw = Unread THEN [ctx EXCEPT !.ctl = "wait"]
  ELSE [ctx EXCEPT !.parsed = "form"]

\* a key that is the same for every client
KeyShared(ctx) == HotClient

\* the limiter's key: the client address (req.ip)
KeyOf(ctx) == ctx.client

\* an increment that is lost while another request of the key is still being read
IncrementLost(h, key) ==
  IF \E x \in BagToSet(pending) : x.client = key THEN h ELSE [h EXCEPT ![key] = @ + 1]

\* the store's increment of one key
Increment(h, key) == [h EXCEPT ![key] = @ + 1]

\* a limit that is off by one
ExceededOffByOne(total) == total >= max

\* max: 100 -- the request is over the limit when the key's count exceeds max
Exceeded(total) == total > max

\* an answer after which the limiter still calls next()
RejectAndContinue(ctx) ==
  [Respond([ctx EXCEPT !.headers = @ \cup {"Retry-After"}], "limiter", 429, message)
     EXCEPT !.ctl = "next"]

\* the limiter's answer to a request over the limit
Reject(ctx) ==
  Respond([ctx EXCEPT !.headers = @ \cup {"Retry-After"}], "limiter", 429, message)

\* app.use(limiter): count the request under its key, then answer or pass on
limiter(w) ==
  LET key   == KeyOf(w.ctx)
      h2    == Increment(w.st.hits, key)
      seen  == [w.st.counted EXCEPT ![w.ctx.client] = @ + 1]
      c2    == [w.ctx EXCEPT !.headers = @ \cup RateLimitHeaders,
                             !.nth = IF seen[w.ctx.client] > max THEN "over" ELSE "within"]
  IN  IF Exceeded(h2[key])
      THEN [ctx |-> Reject(c2),
            st  |-> [hits |-> h2, counted |-> seen, passed |-> w.st.passed]]
      ELSE [ctx |-> c2,
            st  |-> [hits |-> h2, counted |-> seen,
                     passed |-> [w.st.passed EXCEPT ![w.ctx.client] = @ + 1]]]

\* a mount test that looks at the first path segment only
MountedByFirstSegment(prefix, path) == prefix[1] = path[1]

\* app.use(prefix, router): the router is entered when the path starts with the prefix
Mounted(prefix, path) ==
  /\ Len(prefix) <= Len(path)
  /\ SubSeq(path, 1, Len(prefix)) = prefix

\* a route handler of ./routes/customers or ./routes/analytics
RouteHandler(ctx, name, outcome) ==
  CASE outcome.kind = "respond" -> Respond(ctx, name, 200, "ok")
    [] outcome.kind = "raise"   -> Fail(ctx, "route", outcome.detail, 0)
    [] OTHER                    -> ctx

router(ctx, prefix, name, outcome) ==
  IF Mounted(prefix, ctx.path) THEN RouteHandler(ctx, name, outcome) ELSE ctx

\* an error handler that passes the failure on to the client
errorHandlerLeaky(ctx) ==
  Respond([ctx EXCEPT !.stderr = ctx.err.detail], "errorHandler",
          IF ctx.err.status >= 400 THEN ctx.err.status ELSE 500,
          [status |-> "error", message |-> ctx.err.detail])

\* app.use((err, req, res, next) => ...): log err.stack, answer 500 with the fixed body
errorHandler(ctx) ==
  Respond([ctx EXCEPT !.stderr = ctx.err.detail], "errorHandler", 500, InternalError)

\* Express's default handler, reached when the stack is exhausted
finalhandler(ctx) ==
  IF ctx.ctl = "error"
  THEN Respond(ctx, "finalhandler",
               IF ctx.err.status >= 400 THEN ctx.err.status ELSE 500, ctx.err.detail)
  ELSE Respond(ctx, "finalhandler", 404, <<"Cannot", ctx.method, ctx.path>>)

\* the stack with helmet registered after cors
ChainHelmetAfterCors ==
  << "cors", "helmet", "morgan", "json", "urlencoded", "limiter",
     "customers", "analytics", "errorHandler" >>

\* the stack with the limiter registered before the body parsers
ChainLimiterFirst ==
  << "helmet", "cors", "morgan", "limiter", "json", "urlencoded",
     "customers", "analytics", "errorHandler" >>

\* the stack built by the app.use calls
Chain ==
  << "helmet", "cors", "morgan", "json", "urlencoded", "limiter",
     "customers", "analytics", "errorHandler" >>

\* a middleware of four arguments is entered only with an error
IsErrorMiddleware(name) == name = "errorHandler"

Apply(name, w, outcome) ==
  CASE name = "helmet"       -> [w EXCEPT !.ctx = helmet(@)]
    [] name = "cors"         -> [w EXCEPT !.ctx = cors(@)]
    [] name = "morgan"       -> [w EXCEPT !.ctx = morgan(@)]
    [] name = "json"         -> [w EXCEPT !.ctx = jsonParser(@)]
    [] name = "urlencoded"   -> [w EXCEPT !.ctx = urlencoded(@)]
    [] name = "limiter"      -> limiter(w)
    [] name = "customers"    -> [w EXCEPT !.ctx = router(@, CustomersMount, "customers", outcome)]
    [] name = "analytics"    -> [w EXCEPT !.ctx = router(@, AnalyticsMount, "analytics", outcome)]
    [] name = "errorHandler" -> [w EXCEPT !.ctx = errorHandler(@)]

\* app.handle: run the stack from layer i until a layer answers or waits for the body
RECURSIVE RunFrom(_, _, _)
RunFrom(i, w, outcome) ==
  IF w.ctx.ctl \in {"wait", "end"} THEN w
  ELSE IF i > Len(Chain) THEN [w EXCEPT !.ctx = finalhandler(@)]
  ELSE IF (w.ctx.ctl = "error") = IsErrorMiddleware(Chain[i])
       THEN RunFrom(i + 1, Apply(Chain[i], [w EXCEPT !.ctx.at = i], outcome), outcome)
       ELSE RunFrom(i + 1, w, outcome)

-----------------------------------------------------------------------------
(* State *)

Store == [hits |-> hits, counted |-> counted, passed |-> passed]

PendingOf(c) ==
  LET mine == {x \in BagToSet(pending) : x.client = c}
  IN  IF mine = {} THEN 0 ELSE BagCardinality([x \in mine |-> pending[x]])

InFlight == IF BagToSet(pending) = {} THEN 0 ELSE BagCardinality(pending)

\* requests the client has sent in the current window
Sent(c) == counted[c] + skipped[c] + PendingOf(c)

RECURSIVE SentBy(_)
SentBy(cs) == IF cs = {} THEN 0 ELSE LET c == CHOOSE x \in cs : TRUE IN Sent(c) + SentBy(cs \ {c})

\* requests received so far in the window, of all clients
Early == SentBy(Clients)

Cap(c) == IF c = HotClient THEN max + MaxOver ELSE MaxOtherHits

Init ==
  /\ hits = [c \in Clients |-> 0]
  /\ counted = [c \in Clients |-> 0]
  /\ passed = [c \in Clients |-> 0]
  /\ skipped = [c \in Clients |-> 0]
  /\ pending = EmptyBag
  /\ out = {}
  /\ dbState = "connecting"
  /\ stdout = << >>

\* the effect of one run of the stack on the state
Settle(before, w) ==
  /\ hits' = w.st.hits
  /\ counted' = w.st.counted
  /\ passed' = w.st.passed
  /\ IF w.ctx.ctl = "wait"
     THEN /\ pending' = before (+) SetToBag({w.ctx})
          /\ UNCHANGED <<out, skipped>>
     ELSE /\ pending' = before
          /\ skipped' = IF w.st.counted = counted
                        THEN [skipped EXCEPT ![w.ctx.client] = @ + 1]
                        ELSE skipped
          /\ out' = {[w.ctx EXCEPT !.late =
                        w.st.counted[w.ctx.client] + skipped'[w.ctx.client] > max]}

\* a request's head arrives
Receive(c, shape, outcome) ==
  /\ Sent(c) < Cap(c)
  /\ dbState = "connecting" => Early < MaxEarly
  /\ shape.method = "OPTIONS" => skipped[c] < MaxSkipped
  /\ shape.ctype # "none" => InFlight < MaxWaiting
  /\ Settle(pending, RunFrom(1, [ctx |-> NewContext(c, shape), st |-> Store], outcome))
  /\ UNCHANGED <<dbState, stdout>>

\* the body of a waiting request has been read
BodyEnd(ctx, body, outcome) ==
  /\ BagIn(ctx, pending)
  /\ ~IsJSON(body) => skipped[ctx.client] < MaxSkipped
  /\ Settle(pending (-) SetToBag({ctx}),
            RunFrom(ctx.at, [ctx |-> [ctx EXCEPT !.raw = body, !.ctl = "next"], st |-> Store],
                    outcome))
  /\ UNCHANGED <<dbState, stdout>>

\* the limiter's window ends: the store forgets every count
WindowExpire ==
  /\ \E c \in Clients : hits[c] > 0 \/ skipped[c] > 0
  /\ hits' = [c \in Clients |-> 0]
  /\ counted' = [c \in Clients |-> 0]
  /\ passed' = [c \in Clients |-> 0]
  /\ skipped' = [c \in Clients |-> 0]
  /\ UNCHANGED <<pending, out, dbState, stdout>>

\* mongoose.connect's callback, after the connection was made
ConnectSucceeds ==
  /\ dbState = "connecting"
  /\ dbState' = "connected"
  /\ stdout' = Append(stdout, MongoConnected)
  /\ UNCHANGED <<hits, counted, passed, skipped, pending, out>>

\* mongoose.connect's callback, called with the error the attempt ended in
ConnectFails ==
  /\ dbState = "connecting"
  /\ dbState' = "failed"
  /\ stdout' = Append(stdout, MongoConnected)
  /\ UNCHANGED <<hits, counted, passed, skipped, pending, out>>

HandlerChoices(path) ==
  IF Mounted(CustomersMount, path) \/ Mounted(AnalyticsMount, path)
  THEN RouteOutcomes ELSE {NoHandler}

Next ==
  \/ \E c \in Clients, shape \in ReqShapes :
       \E o \in HandlerChoices(shape.path) : Receive(c, shape, o)
  \/ \E ctx \in BagToSet(pending), body \in Bodies :
       \E o \in HandlerChoices(ctx.path) : BodyEnd(ctx, body, o)
  \/ WindowExpire
  \/ ConnectSucceeds
  \/ ConnectFails

Spec == Init /\ [][Next]_vars

-----------------------------------------------------------------------------
(* Properties *)

Min(a, b) == IF a < b THEN a ELSE b
Range(f) == {f[i] : i \in DOMAIN f}
Last(o) == o.responses[Len(o.responses)]
Layer(o) == Chain[o.at]
HandlerLayers == {"customers", "analytics"}
BadJSON(o) == o.ctype = "application/json" /\ o.raw # Unread /\ ~IsJSON(o.raw)
RejectedByLimiter(o) ==
  /\ Last(o).by = "limiter"
  /\ Last(o).status = 429
  /\ Last(o).body = message
  /\ Layer(o) = "limiter"

\* C1 as claimed: of a client's requests in one window, the first 100 are not
\* answered by the limiter, and each later one is answered by the limiter with
\* its message and reaches no route handler.
C1_AsClaimed ==
  \A o \in out : o.late <=> RejectedByLimiter(o)

\* C1 amended: of the requests of a client that reach the limiter in one window,
\* the limiter passes the first 100 on and answers each later one itself, with
\* status 429 and its message, before any route handler is entered.
C1_LimiterQuota ==
  /\ \A o \in out : o.nth # "none" => (o.nth = "over" <=> RejectedByLimiter(o))
  /\ \A o \in out : Last(o).by = "limiter" => o.nth = "over"
  /\ \A c \in Clients : passed[c] = Min(counted[c], max)

C1_Witness ==
  \E o \in out :
    /\ RejectedByLimiter(o) /\ o.nth = "over"
    /\ counted[o.client] = max + 1 /\ passed[o.client] = max

\* C2 as claimed: a request of type application/json whose body is not valid
\* JSON is answered with a 4xx status, and no route handler is entered for it.
C2_ClientError ==
  \A o \in out : BadJSON(o) =>
    /\ Last(o).status \in 400..499
    /\ Layer(o) \notin HandlerLayers

\* C3: a failure raised in a route handler is answered with status 500 and the
\* fixed body, whatever the failure was.
C3_GenericError ==
  \A o \in out : o.err.kind = "route" =>
    /\ Len(o.responses) = 1
    /\ Last(o).status = 500
    /\ Last(o).body = InternalError

C3_Witness ==
  \E o \in out :
    /\ o.err.kind = "route" /\ o.err.detail = "MongoError"
    /\ Last(o).by = "errorHandler" /\ Last(o).status = 500

\* C4 as claimed: every finished request has exactly one response, written by
\* a route handler or by the error handler.
C4_AsClaimed ==
  \A o \in out :
    /\ Len(o.responses) = 1
    /\ Last(o).by \in HandlerLayers \cup {"errorHandler"}

\* C4 amended: every finished request has exactly one response, written by a
\* route handler, the error handler, the CORS preflight, the rate limiter or
\* Express's default not-found handler.
C4_OneResponse ==
  \A o \in out :
    /\ Len(o.responses) = 1
    /\ o.ctl = "end"
    /\ Last(o).by \in HandlerLayers \cup {"errorHandler", "cors", "limiter", "finalhandler"}
    /\ Last(o).by \in {"cors", "limiter"} \cup HandlerLayers => Last(o).by = Layer(o)

C4_Witness ==
  \E o \in out :
    /\ Last(o).by = "limiter" /\ Len(o.responses) = 1
    /\ o.path = <<"api", "customers", "7">>

\* C5: a request whose path is under neither mount, and which no middleware
\* answers or fails, gets a 404 response.
C5_NotFound ==
  \A o \in out :
    ( /\ SubSeq(o.path, 1, 2) \notin {<<"api", "customers">>, <<"api", "analytics">>}
      /\ Last(o).by \notin {"cors", "limiter"}
      /\ o.err = NoError )
    => /\ Len(o.responses) = 1
       /\ Last(o).status = 404

C5_Witness ==
  \E o \in out :
    /\ o.path = <<"api", "unknown">> /\ o.method = "GET"
    /\ o.nth = "within"
    /\ Last(o).by = "finalhandler" /\ Last(o).status = 404

C7_SuccessLoggedOnlyOnSuccess ==
  MongoConnected \in Range(stdout) => dbState = "connected"

\* C8: whatever the interleaving of a client's requests, no count is lost, and
\* the limiter passes at most 100 of them on in one window.
C8_NoLostIncrement ==
  \A c \in Clients :
    /\ hits[c] = counted[c]
    /\ passed[c] <= max

C8_Witness ==
  /\ \E x \in BagToSet(pending) : x.client = HotClient
  /\ counted[HotClient] > max
  /\ passed[HotClient] = max

\* C9: a client is rejected only on its own count in the current window: while
\* it has sent at most 100 requests in the window, all of them were passed on,
\* whatever other clients sent and whatever happened in earlier windows.
C9_OwnWindowOnly ==
  \A c \in Clients : counted[c] <= max => passed[c] = counted[c] /\ hits[c] <= max

C9_Witness ==
  /\ counted[HotClient] > max
  /\ \E c \in Clients \ {HotClient} : counted[c] >= 1 /\ passed[c] = counted[c]
  /\ \E o \in out : o.client # HotClient /\ Last(o).by \in HandlerLayers

\* the window has ended after a rejection: the rejected client starts from zero
C9_AfterExpiry ==
  \E o \in out : RejectedByLimiter(o) /\ counted[o.client] = 0 /\ hits[o.client] = 0

\* C10: a request the body parser fails on is answered without entering the
\* limiter: the step that answers it leaves every counter as it was, and the
\* answer is not the limiter's.
C10_ParseFailureSkipsLimiter ==
  /\ [](\A o \in out : BadJSON(o) =>
          /\ o.nth = "none"
          /\ RateLimitHeaders \cap Last(o).headers = {}
          /\ Last(o).by # "limiter")
  /\ [][ (InFlight' < InFlight /\ \E o \in out' : BadJSON(o))
           => (hits' = hits /\ passed' = passed) ]_vars

C10_Witness ==
  \E o \in out :
    /\ BadJSON(o) /\ Last(o).by = "errorHandler"
    /\ hits[o.client] >= 1 /\ skipped[o.client] = 1

====
